---- MODULE Spec2Model ----
(***************************************************************************)
(* Code Demon: the agent loop (core/agent.py), the tool registry           *)
(* (tools/registry.py) and the approval gate (core/approval.py).           *)
(*                                                                         *)
(* One chat() turn is a coroutine; its steps are cut at the awaits of the  *)
(* code (the provider call, each tool dispatch).  Task 1 is the caller of  *)
(* __main__.chat_loop, which awaits each chat() before reading the next    *)
(* input line; task 2 is a caller that does not wait (SpecConcurrent).     *)
(***************************************************************************)
EXTENDS Integers, Sequences, FiniteSets, TLC

\* ------------------------------------------------------------------ bounds
MaxConvLen == 3      \* max_conversation_length ranges over 1..MaxConvLen
MaxDepth   == 2      \* max_tool_depth ranges over 0..MaxDepth
MaxCalls   == 2      \* tool calls carried by one provider response
MaxTurns   == 1     \* chat() turns started in one run
MaxToolCalls == 2    \* tool calls the provider asks for in one run
MaxTrimLen == 4      \* longest conversation handed to _trim_conversation alone
MaxRegistry == 4     \* most tools registered when one dispatch is looked at alone
MaxRegOps  == 5      \* register and unregister calls in one run
MaxParams  == 2      \* most parameters one tool declares

Tasks == {1, 2}

VARIABLES
    max_conversation_length,  \* Agent.max_conversation_length
    max_tool_depth,           \* Agent.max_tool_depth
    messages,                 \* Agent.messages
    _tools,                   \* ToolRegistry._tools, in insertion order
    _approval_handler,        \* ToolRegistry._approval_handler
    require_approval,         \* ApprovalSystem.require_approval
    _auto_approve_all,        \* ApprovalSystem._auto_approve_all
    pc,                       \* per task: where its chat() coroutine stands
    depth,                    \* per task: local depth of _process_with_tools
    response,                 \* per task: the provider response being handled
    idx,                      \* per task: position in response.tool_calls
    providerCalls,            \* per task: llm.chat calls issued in this turn
    trace,                    \* per task: dispatch records of this response
    inflight,                 \* tool bodies started and not yet finished
    effects,                  \* tool bodies of this response that ran to the end
    turnNo,                   \* chat() calls started so far
    turn,                     \* per task: which chat() call it is running
    dispatched,               \* tool calls the provider has asked for so far
    failed,                   \* per task: the exception its last chat() raised
    returned,                 \* per task: the text its last chat() returned
    gate_approval_handler,    \* ApprovalSystem._approval_handler
    gated,                    \* the execute_with_approval call under way
    listed,                   \* what get_tools_for_llm returned, until the registry changes
    stamp,                    \* per registered name: when it was inserted, and the tool
    clock                     \* register and unregister calls so far

vars == << max_conversation_length, max_tool_depth, messages, _tools,
           _approval_handler, require_approval, _auto_approve_all, pc, depth,
           response, idx, providerCalls, trace, inflight, effects, turnNo,
           turn, dispatched, failed, returned, gate_approval_handler, gated,
           listed, stamp, clock >>

\* ---------------------------------------------------------------- messages
NoId == << >>

\* Message(role, content, tool_call_id=None)
Message(role, content, tool_call_id) ==
    [role |-> role, content |-> content, tool_call_id |-> tool_call_id]

\* Message(role=SYSTEM, content=get_system_prompt(personality))
SystemMessage == Message("system", [kind |-> "system_prompt"], NoId)

\* Message(role=USER, content=full_message) of the n-th chat() call
UserMessage(n) == Message("user", [kind |-> "user_text", turn |-> n], NoId)

Last(s) == s[Len(s)]

\* s[-n:] of Python for n >= 0: -0 is 0, so s[-0:] is the whole list
PySuffix(s, n) ==
    IF n = 0 \/ n >= Len(s) THEN s
    ELSE SubSeq(s, Len(s) - n + 1, Len(s))

\* Python's `sub in s` for strings
Contains(s, sub) ==
    \E i \in 1..(Len(s) - Len(sub) + 1) : SubSeq(s, i, i + Len(sub) - 1) = sub

UpperCase == "ABCDEFGHIJKLMNOPQRSTUVWXYZ"
LowerCase == "abcdefghijklmnopqrstuvwxyz"

\* str.lower() on one character
LowerChar(c) ==
    IF \E i \in 1..26 : SubSeq(UpperCase, i, i) = c
    THEN LET i == CHOOSE i \in 1..26 : SubSeq(UpperCase, i, i) = c
         IN SubSeq(LowerCase, i, i)
    ELSE c

RECURSIVE lower(_)
\* str.lower()
lower(s) ==
    IF Len(s) = 0 THEN ""
    ELSE LowerChar(SubSeq(s, 1, 1)) \o lower(SubSeq(s, 2, Len(s)))

\* a slip: the oldest messages are kept instead of the most recent ones
TrimKeepsHead(msgs, N) ==
    IF Len(msgs) <= N THEN msgs
    ELSE SubSeq(msgs, 1, N)

\* a slip: the tail replaces the conversation, system prompt not kept
TrimDropsSystem(msgs, N) ==
    IF Len(msgs) <= N THEN msgs
    ELSE PySuffix(msgs, N - 1)

\* Agent._trim_conversation
_trim_conversation(msgs, N) ==
    IF Len(msgs) <= N THEN msgs
    ELSE << msgs[1] >> \o PySuffix(msgs, N - 1)

\* a slip: reset that clears everything and keeps nothing
ResetKeepsNothing(msgs) == << >>

\* Agent.reset_conversation
reset_conversation(msgs) ==
    IF Len(msgs) > 0 THEN << msgs[1] >> ELSE << SystemMessage >>

\* ---------------------------------------------------------------- registry
\* the tools main() registers that the model keeps: one ungated, one gated
\* (ReadFileTool: requires_approval=False, GitCommitTool: requires_approval=True)
RegisteredAtStartup ==
    << [name |-> "read_file",  requires_approval |-> FALSE, category |-> "files"],
       [name |-> "git_commit", requires_approval |-> TRUE,  category |-> "git"] >>

\* names a provider may put in a tool call; "got_status" is never registered
CallNames == {"read_file", "git_commit", "got_status"}

None == [name |-> "None", requires_approval |-> FALSE]

\* ToolRegistry.get_tool: self._tools.get(name)
get_tool(name) ==
    IF \E i \in 1..Len(_tools) : _tools[i].name = name
    THEN _tools[CHOOSE i \in 1..Len(_tools) : _tools[i].name = name]
    ELSE None

NoExc == [type |-> "none", msg |-> ""]

\* --------------------------------------------------- similar names (difflib)
RECURSIVE MatchLen(_, _, _, _, _, _)
\* length of the common run of a[i..ahi] and b[j..bhi] that starts at i and j
MatchLen(a, b, i, j, ahi, bhi) ==
    IF i > ahi \/ j > bhi \/ SubSeq(a, i, i) # SubSeq(b, j, j) THEN 0
    ELSE 1 + MatchLen(a, b, i + 1, j + 1, ahi, bhi)

\* the common runs of a[alo..ahi] and b[blo..bhi], one per pair of starts
Runs(a, b, alo, ahi, blo, bhi) ==
    { << i, j, MatchLen(a, b, i, j, ahi, bhi) >> : i \in alo..ahi, j \in blo..bhi }

\* of the longest runs the one that starts earliest in a, and of those the one
\* that starts earliest in b; (alo, blo, 0) when nothing matches
Longest(runs, alo, blo) ==
    IF \A r \in runs : r[3] = 0 THEN << alo, blo, 0 >>
    ELSE CHOOSE r \in runs : \A q \in runs :
            \/ q[3] < r[3]
            \/ q[3] = r[3] /\ (r[1] < q[1] \/ (r[1] = q[1] /\ r[2] <= q[2]))

\* SequenceMatcher.find_longest_match without junk: the longest block common
\* to a[alo..ahi] and b[blo..bhi]
find_longest_match(a, b, alo, ahi, blo, bhi) ==
    Longest(Runs(a, b, alo, ahi, blo, bhi), alo, blo)

RECURSIVE MatchingSize(_, _, _, _, _, _)
RECURSIVE SizeAround(_, _, _, _, _, _, _)
\* the size of the block m plus the sizes of the blocks matched to the left
\* and to the right of it
SizeAround(a, b, alo, ahi, blo, bhi, m) ==
    IF m[3] = 0 THEN 0
    ELSE m[3] + MatchingSize(a, b, alo, m[1] - 1, blo, m[2] - 1)
              + MatchingSize(a, b, m[1] + m[3], ahi, m[2] + m[3], bhi)

\* sum of the sizes of SequenceMatcher.get_matching_blocks: the longest block,
\* then the same to the left and to the right of it
MatchingSize(a, b, alo, ahi, blo, bhi) ==
    IF alo > ahi \/ blo > bhi THEN 0
    ELSE SizeAround(a, b, alo, ahi, blo, bhi,
                    find_longest_match(a, b, alo, ahi, blo, bhi))

\* SequenceMatcher(None, a, b).ratio() = 2.0 * matches / (len(a) + len(b)),
\* plus 0.3 when one name is a substring of the other, as the fraction num/den
Ratio(a, b) ==
    [num |-> 20 * MatchingSize(a, b, 1, Len(a), 1, Len(b))
             + (IF Contains(b, a) \/ Contains(a, b)
                THEN 3 * (Len(a) + Len(b)) ELSE 0),
     den |-> 10 * (Len(a) + Len(b))]

\* the score of _find_similar_tools: the ratio of the lowercased names
Similarity(tool_name, available_tool) ==
    Ratio(lower(tool_name), lower(available_tool))

\* the tools a registry may hold: tools of register_all_tools, and tools a
\* plugin registers under names close to "got_status"
ToolPool ==
    { [name |-> "read_file",      requires_approval |-> FALSE, category |-> "files"],
      [name |-> "git_status",     requires_approval |-> FALSE, category |-> "git"],
      [name |-> "git_commit",     requires_approval |-> TRUE,  category |-> "git"],
      [name |-> "get_status",     requires_approval |-> FALSE, category |-> "system"],
      [name |-> "got_stats",      requires_approval |-> FALSE, category |-> "system"],
      [name |-> "got_status_all", requires_approval |-> FALSE, category |-> "code"] }

\* names no registry of the model holds
UnknownNames == {"got_status", "GIT", "xyz"}

\* every name a dispatch may carry
AllNames == { tool.name : tool \in ToolPool } \cup UnknownNames

\* the scores of all pairs of names, computed once
ScoreTable ==
    { [tool_name |-> p[1], available_tool |-> p[2],
       score |-> Similarity(p[1], p[2])] : p \in AllNames \X AllNames }

\* the score of one pair, looked up
Score(tool_name, available_tool) ==
    (CHOOSE e \in ScoreTable :
        e.tool_name = tool_name /\ e.available_tool = available_tool).score

\* score > 0.4
AboveThreshold(score) == 10 * score.num > 4 * score.den

\* s1 > s2, s1 == s2 on scores
Higher(s1, s2) == s1.num * s2.den > s2.num * s1.den
Same(s1, s2) == s1.num * s2.den = s2.num * s1.den

RECURSIVE Join(_, _)
\* sep.join(names)
Join(names, sep) ==
    IF Len(names) = 0 THEN ""
    ELSE IF Len(names) = 1 THEN names[1]
    ELSE names[1] \o sep \o Join(Tail(names), sep)

RECURSIVE SuggestionLines(_)
\* one line per suggestion (the tool's description after the name is left out)
SuggestionLines(suggestions) ==
    IF Len(suggestions) = 0 THEN ""
    ELSE "  * " \o suggestions[1] \o "\n" \o SuggestionLines(Tail(suggestions))

\* max_suggestions: int = 3
DefaultMaxSuggestions == 3

\* similarities: the score of every registered name, in registration order
ScoresOf(tool_name) ==
    [i \in 1..Len(_tools) |-> Score(tool_name, _tools[i].name)]

\* similarities.sort(key=score, reverse=True)[:max_suggestions] as positions
\* in the registry: list.sort is stable, equal scores stay in registration order
SortedSlice(scores, max_suggestions) ==
    LET n == Len(scores)
        Before(j, i) == \/ Higher(scores[j], scores[i])
                        \/ Same(scores[j], scores[i]) /\ j < i
        rank(i) == 1 + Cardinality({ j \in 1..n : Before(j, i) })
    IN [r \in 1..(IF n < max_suggestions THEN n ELSE max_suggestions) |->
           CHOOSE i \in 1..n : rank(i) = r]

\* the names registered at the given positions
NamesAt(positions) == [k \in 1..Len(positions) |-> _tools[positions[k]].name]

\* a slip: the threshold is applied with >= instead of >
KeepAtOrAbove(scores, top) ==
    SelectSeq(top, LAMBDA i : 10 * scores[i].num >= 4 * scores[i].den)

\* [... for name, score in top if score > 0.4]
KeepAbove(scores, top) == SelectSeq(top, LAMBDA i : AboveThreshold(scores[i]))

\* a slip: the suggestions keep the scores equal to the threshold
PickAtThreshold(scores, max_suggestions) ==
    KeepAtOrAbove(scores, SortedSlice(scores, max_suggestions))

\* the positions of the suggestions: sorted, sliced, then filtered
Pick(scores, max_suggestions) ==
    KeepAbove(scores, SortedSlice(scores, max_suggestions))

\* a slip: the threshold is applied with >= instead of >
FindSimilarAtThreshold(tool_name, max_suggestions) ==
    NamesAt(PickAtThreshold(ScoresOf(tool_name), max_suggestions))

\* ToolRegistry._find_similar_tools: score every registered name, sort by
\* score descending, take the first max_suggestions, keep those with
\* score > 0.4
_find_similar_tools(tool_name, max_suggestions) ==
    NamesAt(Pick(ScoresOf(tool_name), max_suggestions))

\* ToolCategory values in the order sorted() gives them
SortedCategories == << "code", "execution", "files", "git", "system", "web" >>

\* the registered names of one category, in registration order
NamesOfCategory(cat) ==
    LET sel == SelectSeq(_tools, LAMBDA tool : tool.category = cat)
    IN [k \in 1..Len(sel) |-> sel[k].name]

RECURSIVE CategoryLines(_)
\* for category, tools in sorted(categories.items()): one line per category
\* that has a registered tool
CategoryLines(cats) ==
    IF Len(cats) = 0 THEN ""
    ELSE (IF Len(NamesOfCategory(cats[1])) = 0 THEN ""
          ELSE "\n" \o cats[1] \o ": " \o Join(NamesOfCategory(cats[1]), ", "))
         \o CategoryLines(Tail(cats))

\* the sentence that tells the model not to make up tool names
Instruction ==
    "\nIMPORTANT: Only use tools that actually exist. Do not invent tool names."

\* error_msg for the name, given the suggestions found for it
NotFoundText(name, suggestions) ==
    "Tool '" \o name \o "' does not exist."
    \o (IF Len(suggestions) > 0
        THEN "\n\nDid you mean one of these?\n"
             \o SuggestionLines(suggestions) \o Instruction
        ELSE "\n\nNo similar tools found. Available tools:\n"
             \o CategoryLines(SortedCategories))

\* the message of the ToolNotFoundError execute_tool raises
NotFoundMsg(name) ==
    NotFoundText(name, _find_similar_tools(name, DefaultMaxSuggestions))

NoText == [kind |-> "none", tool |-> "", msg |-> ""]

\* the text a tool body returns
ToolResult(name) == [kind |-> "result", tool |-> name, msg |-> ""]

\* DANGEROUS_OPERATIONS
DANGEROUS_OPERATIONS ==
    { "write_file", "edit_file", "delete_file", "git_commit", "git_push",
      "execute_command", "run_script" }

\* DANGEROUS_PATHS
DANGEROUS_PATHS ==
    { "/etc/", "/var/", "/usr/", "/bin/", "/sbin/", "/boot/", "/sys/", "/proc/",
      ".git/", ".env", "config.json", "package.json", "requirements.txt" }

\* ApprovalSystem.is_dangerous_operation
is_dangerous_operation(operation) == operation \in DANGEROUS_OPERATIONS

\* a slip: the path is matched as given, not lowercased
IsDangerousPathAsGiven(path) ==
    \E dangerous \in DANGEROUS_PATHS : Contains(path, dangerous)

\* ApprovalSystem.is_dangerous_path
is_dangerous_path(path) ==
    \E dangerous \in DANGEROUS_PATHS : Contains(lower(path), dangerous)

\* ApprovalSystem.needs_approval(operation, **kwargs)
needs_approval(operation, kwargs) ==
    IF ~require_approval THEN FALSE
    ELSE IF _auto_approve_all THEN FALSE
    ELSE IF is_dangerous_operation(operation) THEN TRUE
    ELSE IF "path" \in DOMAIN kwargs /\ is_dangerous_path(kwargs.path) THEN TRUE
    ELSE FALSE

\* what the user types at Confirm.ask: "y", "n", or just Enter
PromptInputs == {"y", "n", ""}

\* ApprovalSystem._cli_approval: Confirm.ask(..., default=False)
_cli_approval(promptInput) ==
    IF promptInput = "" THEN FALSE ELSE promptInput = "y"

\* a slip: the prompt is shown even when a handler is configured
RequestApprovalAlwaysPrompts(handlerAnswer, promptInput) ==
    IF ~require_approval \/ _auto_approve_all
    THEN [approved |-> TRUE, handler_called |-> FALSE, prompt_called |-> FALSE]
    ELSE [approved |-> _cli_approval(promptInput),
          handler_called |-> FALSE, prompt_called |-> TRUE]

\* ApprovalSystem.request_approval: the flags short-circuit to True, otherwise
\* the gate's own handler answers if one is set, otherwise the CLI prompt.
\* handler_called, prompt_called: which of the two was consulted
request_approval(handlerAnswer, promptInput) ==
    IF ~require_approval \/ _auto_approve_all
    THEN [approved |-> TRUE, handler_called |-> FALSE, prompt_called |-> FALSE]
    ELSE IF gate_approval_handler # "none"
    THEN [approved |-> handlerAnswer,
          handler_called |-> TRUE, prompt_called |-> FALSE]
    ELSE [approved |-> _cli_approval(promptInput),
          handler_called |-> FALSE, prompt_called |-> TRUE]

\* __main__.approval_handler: delegates to approval_system.request_approval;
\* userAnswer is what the user decides when asked
approval_handler(userAnswer) ==
    request_approval(userAnswer, IF userAnswer THEN "y" ELSE "n").approved

\* a slip: a missing handler falls back to the gate's flags instead of denying
GateFallsBackToFlags(name, userAnswer) ==
    LET tool == get_tool(name) IN
    IF tool = None
    THEN [run |-> FALSE, asked |-> FALSE, answer |-> FALSE,
          exc |-> [type |-> "ToolNotFoundError", msg |-> NotFoundMsg(name)]]
    ELSE IF tool.requires_approval
    THEN IF _approval_handler # "none"
         THEN LET approved == approval_handler(userAnswer) IN
              IF ~approved
              THEN [run |-> FALSE, asked |-> TRUE, answer |-> FALSE,
                    exc |-> [type |-> "ToolApprovalDenied", msg |-> "Approval denied"]]
              ELSE [run |-> TRUE, asked |-> TRUE, answer |-> TRUE, exc |-> NoExc]
         ELSE IF ~require_approval \/ _auto_approve_all
              THEN [run |-> TRUE, asked |-> FALSE, answer |-> FALSE, exc |-> NoExc]
              ELSE [run |-> FALSE, asked |-> FALSE, answer |-> FALSE,
                    exc |-> [type |-> "ToolApprovalDenied",
                             msg |-> "requires approval but no handler is set"]]
    ELSE [run |-> TRUE, asked |-> FALSE, answer |-> FALSE, exc |-> NoExc]

\* a slip: the handler's answer is computed but the denial is not raised
GateIgnoresDenial(name, userAnswer) ==
    LET tool == get_tool(name) IN
    IF tool = None
    THEN [run |-> FALSE, asked |-> FALSE, answer |-> FALSE,
          exc |-> [type |-> "ToolNotFoundError", msg |-> NotFoundMsg(name)]]
    ELSE IF tool.requires_approval
    THEN IF _approval_handler # "none"
         THEN [run |-> TRUE, asked |-> TRUE,
               answer |-> approval_handler(userAnswer), exc |-> NoExc]
         ELSE [run |-> FALSE, asked |-> FALSE, answer |-> FALSE,
               exc |-> [type |-> "ToolApprovalDenied",
                        msg |-> "requires approval but no handler is set"]]
    ELSE [run |-> TRUE, asked |-> FALSE, answer |-> FALSE, exc |-> NoExc]

\* ToolRegistry.execute_tool up to the await: lookup, then the approval check.
\* run: the body is started; asked/answer: the handler call and what it said
execute_tool_gate(name, userAnswer) ==
    LET tool == get_tool(name) IN
    IF tool = None
    THEN [run |-> FALSE, asked |-> FALSE, answer |-> FALSE,
          exc |-> [type |-> "ToolNotFoundError", msg |-> NotFoundMsg(name)]]
    ELSE IF tool.requires_approval
    THEN IF _approval_handler # "none"
         THEN LET approved == approval_handler(userAnswer) IN
              IF ~approved
              THEN [run |-> FALSE, asked |-> TRUE, answer |-> FALSE,
                    exc |-> [type |-> "ToolApprovalDenied", msg |-> "Approval denied"]]
              ELSE [run |-> TRUE, asked |-> TRUE, answer |-> TRUE, exc |-> NoExc]
         ELSE [run |-> FALSE, asked |-> FALSE, answer |-> FALSE,
               exc |-> [type |-> "ToolApprovalDenied",
                        msg |-> "requires approval but no handler is set"]]
    ELSE [run |-> TRUE, asked |-> FALSE, answer |-> FALSE, exc |-> NoExc]

\* what the awaited tool.execute can do under asyncio.wait_for: return its
\* text, raise an exception of its own (one of them a TimeoutError, as a
\* socket or an inner wait_for raises it), or run past the deadline
BodyOutcomes == {"ok", "raise", "raise_timeout", "timeout"}

\* the exception the body itself raised
BodyExc(outcome) ==
    CASE outcome = "raise"         -> [type |-> "ValueError", msg |-> "bad path"]
      [] outcome = "raise_timeout" -> [type |-> "TimeoutError",
                                       msg |-> "connect timed out"]
      [] OTHER                     -> NoExc

\* what `await asyncio.wait_for(tool.execute(...), timeout)` raises: the
\* body's exception, or asyncio.TimeoutError (an alias of the builtin
\* TimeoutError) when the deadline expired
wait_for(outcome) ==
    IF outcome = "timeout" THEN [type |-> "TimeoutError", msg |-> ""]
    ELSE BodyExc(outcome)

\* ToolRegistry.execute_tool from the await on: the result, or the exception
\* the matching except clause raises (ToolExecutionError in either clause;
\* the clauses match on the class of what wait_for raised)
execute_tool_body(name, outcome) ==
    LET e == wait_for(outcome) IN
    IF e = NoExc
    THEN [exc |-> NoExc, result |-> ToolResult(name)]
    ELSE IF e.type = "TimeoutError"
    THEN [exc |-> [type |-> "ToolExecutionError", msg |-> "timed out"],
          result |-> NoText]
    ELSE [exc |-> [type |-> "ToolExecutionError", msg |-> "failed: " \o e.msg],
          result |-> NoText]

\* a slip: a timed-out body is left running instead of being cancelled
InflightLeaksOnTimeout(running, id, outcome) ==
    IF outcome = "timeout" THEN running ELSE running \ {id}

\* asyncio.wait_for: returns once the body finished or its cancellation did
InflightAfter(running, id, outcome) == running \ {id}

\* ------------------------------------------------------------------- agent
\* error_msg = f"Error executing {tool_call.name}: {str(e)}"
ErrorMsg(name, msg) == [kind |-> "error", tool |-> name, msg |-> msg]

\* a slip: only ToolExecutionError is caught, other tool errors propagate
ExecuteToolCatchesOnlyExecutionError(name, reg, recordFails) ==
    IF reg.exc.type = "none"
    THEN IF recordFails
         THEN [text |-> ErrorMsg(name, "achievements save failed"), raised |-> "none"]
         ELSE [text |-> reg.result, raised |-> "none"]
    ELSE IF reg.exc.type = "ToolExecutionError"
         THEN [text |-> ErrorMsg(name, reg.exc.msg), raised |-> "none"]
         ELSE [text |-> NoText, raised |-> reg.exc.type]

\* Agent._execute_tool around registry.execute_tool: the try block returns the
\* result unless the usage recording after the dispatch raises
\* (AchievementTracker._save writes a file); except Exception turns any
\* exception into the error text.  raised: what leaves _execute_tool
_execute_tool(name, reg, recordFails) ==
    IF reg.exc.type = "none" /\ ~recordFails
    THEN [text |-> reg.result, raised |-> "none"]
    ELSE [text |-> ErrorMsg(name, IF reg.exc.type = "none"
                                  THEN "achievements save failed"
                                  ELSE reg.exc.msg),
          raised |-> "none"]

NoResponse == [content |-> "", tool_calls |-> << >>]
Contents == {"", "answer"}

\* the tool-call lists a provider may return in turn n at depth d
ToolCallLists(n, d) ==
    UNION { { [i \in 1..k |-> [id |-> << n, d, i >>, name |-> f[i]]] :
              f \in [1..k -> CallNames] } : k \in 0..MaxCalls }

\* a slip: the depth-exceeded suffix is never appended
FinalTextDropsNotice(content, notice) == [text |-> content, notice |-> FALSE]

\* final_response, with the "(Max tool depth reached: N)" suffix or without
FinalText(content, notice) == [text |-> content, notice |-> notice]

\* chat() has not returned a text: it is running, or it raised
NoReturn == [text |-> "", notice |-> FALSE, none |-> TRUE]

\* get_tools_for_llm has not been called since the registry last changed
NotListed == [called |-> FALSE, tools |-> << >>]

\* nothing is registered
NoStamps == [n \in {} |-> 0]

\* no execute_with_approval call is under way
NoGated == [state |-> "none"]

\* the locals of a chat() coroutine that is not running
Idle(t) ==
    /\ pc' = [pc EXCEPT ![t] = "idle"]
    /\ depth' = [depth EXCEPT ![t] = 0]
    /\ response' = [response EXCEPT ![t] = NoResponse]
    /\ idx' = [idx EXCEPT ![t] = 0]
    /\ providerCalls' = [providerCalls EXCEPT ![t] = 0]
    /\ trace' = [trace EXCEPT ![t] = << >>]

Config == << max_conversation_length, max_tool_depth, _tools,
             _approval_handler, require_approval, _auto_approve_all,
             gate_approval_handler >>

\* the configuration without the registry's tools
Settings == << max_conversation_length, max_tool_depth, _approval_handler,
               require_approval, _auto_approve_all, gate_approval_handler >>

\* the registrations so far and the last listing, which no chat() turn touches
RegistryView == << listed, stamp, clock >>

\* what only the provider's answers and chat() calls advance
Counters == << turnNo, dispatched >>

\* a slip: the final text is returned but not appended to the conversation
ReturnWithoutAssistant(t, msgs, final) ==
    /\ messages' = _trim_conversation(msgs, max_conversation_length)
    /\ Idle(t)
    /\ effects' = {}
    /\ returned' = [returned EXCEPT ![t] = final]
    /\ UNCHANGED << Config, gated, RegistryView, turn, inflight, Counters, failed >>

\* Agent.chat from "append the assistant response" to the return
Return(t, msgs, final) ==
    /\ messages' = _trim_conversation(
                      Append(msgs, Message("assistant", final, NoId)),
                      max_conversation_length)
    /\ Idle(t)
    /\ effects' = {}
    /\ returned' = [returned EXCEPT ![t] = final]
    /\ UNCHANGED << Config, gated, RegistryView, turn, inflight, Counters, failed >>

\* a slip: the provider error is turned into an assistant message
RaiseAppendsAssistant(t, excType) ==
    /\ Idle(t)
    /\ failed' = [failed EXCEPT ![t] = excType]
    /\ returned' = [returned EXCEPT ![t] = NoReturn]
    /\ effects' = {}
    /\ messages' = Append(messages, Message("assistant", FinalText("", FALSE), NoId))
    /\ UNCHANGED << Config, gated, RegistryView, turn, inflight, Counters >>

\* an exception leaves chat(): nothing after the raise point runs
Raise(t, excType) ==
    /\ Idle(t)
    /\ failed' = [failed EXCEPT ![t] = excType]
    /\ returned' = [returned EXCEPT ![t] = NoReturn]
    /\ effects' = {}
    /\ UNCHANGED << Config, gated, RegistryView, turn, messages, inflight, Counters >>

\* a slip: the loop bound off by one
LoopConditionOffByOne(d) == d <= max_tool_depth

\* while depth < self.max_tool_depth
LoopCondition(d) == d < max_tool_depth

\* a slip: the loop never goes back to the provider after a tool round
ContinueNever(content) == FALSE

\* if not response.content: continue
ContinueAfterTools(content) == content = ""

\* the caller of chat_loop: one chat() at a time
Serialized(t) == t = 1 /\ \A u \in Tasks : pc[u] = "idle"

\* a slip: chat() takes a lock, so a call waits until no other call is running
ChatStartLocked(t) ==
    /\ \A u \in Tasks : pc[u] = "idle"
    /\ pc[t] = "idle"
    /\ messages' = Append(messages, UserMessage(turnNo + 1))
    /\ pc' = [pc EXCEPT ![t] = "await_llm"]
    /\ providerCalls' = [providerCalls EXCEPT ![t] = 1]
    /\ turnNo' = turnNo + 1
    /\ turn' = [turn EXCEPT ![t] = turnNo + 1]
    /\ failed' = [failed EXCEPT ![t] = "none"]
    /\ returned' = [returned EXCEPT ![t] = NoReturn]
    /\ UNCHANGED << Config, gated, RegistryView, depth, response, idx, trace, inflight,
                    effects, dispatched >>

\* Agent.chat up to the first await of _process_with_tools
ChatStart(t) ==
    /\ pc[t] = "idle"
    /\ LET msgs == Append(messages,
                          UserMessage(turnNo + 1)) IN
       IF LoopCondition(0)
       THEN /\ messages' = msgs
            /\ pc' = [pc EXCEPT ![t] = "await_llm"]
            /\ providerCalls' = [providerCalls EXCEPT ![t] = 1]
            /\ turnNo' = turnNo + 1
            /\ turn' = [turn EXCEPT ![t] = turnNo + 1]
            /\ failed' = [failed EXCEPT ![t] = "none"]
            /\ returned' = [returned EXCEPT ![t] = NoReturn]
            /\ UNCHANGED << Config, gated, RegistryView, depth, response, idx, trace, inflight,
                            effects, dispatched >>
       ELSE /\ messages' = _trim_conversation(
                             Append(msgs, Message("assistant", FinalText("", TRUE), NoId)),
                             max_conversation_length)
            /\ turnNo' = turnNo + 1
            /\ turn' = [turn EXCEPT ![t] = turnNo + 1]
            /\ failed' = [failed EXCEPT ![t] = "none"]
            /\ returned' = [returned EXCEPT ![t] = FinalText("", TRUE)]
            /\ UNCHANGED << Config, gated, RegistryView, pc, depth, response, idx, providerCalls,
                            trace, inflight, effects, dispatched >>

\* response = await self.llm.chat(...) returns; without tool calls the turn ends
LLMRespond(t) ==
    /\ pc[t] = "await_llm"
    /\ \E content \in Contents, calls \in ToolCallLists(turn[t], depth[t]) :
         IF Len(calls) = 0
         THEN Return(t, messages, FinalText(content, FALSE))
         ELSE /\ dispatched + Len(calls) <= MaxToolCalls
              /\ response' = [response EXCEPT ![t] =
                                [content |-> content, tool_calls |-> calls]]
              /\ idx' = [idx EXCEPT ![t] = 1]
              /\ pc' = [pc EXCEPT ![t] = "tools"]
              /\ dispatched' = dispatched + Len(calls)
              /\ UNCHANGED << Config, gated, RegistryView, turn, messages, depth, providerCalls, trace,
                              inflight, effects, turnNo, failed, returned >>

\* await self.llm.chat(...) raises: nothing in chat() catches it
LLMRaise(t) ==
    /\ pc[t] = "await_llm"
    /\ Raise(t, "LLMError")

\* a slip: the lookup takes the tool out of the registry (pop for get)
LookupPopsTool(tools, name) == SelectSeq(tools, LAMBDA tool : tool.name # name)

\* self._tools after execute_tool: get_tool, _find_similar_tools and the
\* category listing only read the dict
ToolsAfterExecute(tools, name) == tools

\* one record of trace: what the dispatch of one tool call did
DispatchRecord(call, g, saw) ==
    [id |-> call.id, name |-> call.name, asked |-> g.asked, answer |-> g.answer,
     ran |-> g.run, done |-> ~g.run, exc |-> g.exc, result |-> NoText,
     text |-> NoText, saw |-> saw, outcome |-> "none", record_failed |-> FALSE]

\* result = await self._execute_tool(tool_call), up to the await of the body:
\* registry lookup and approval check; a failure there is already the result
ToolDispatch(t) ==
    /\ pc[t] = "tools"
    /\ idx[t] <= Len(response[t].tool_calls)
    /\ \E userAnswer \in BOOLEAN :
         LET call == response[t].tool_calls[idx[t]]
             g    == execute_tool_gate(call.name, userAnswer)
             rec  == DispatchRecord(call, g, effects)
         IN
         /\ _tools' = ToolsAfterExecute(_tools, call.name)
         /\ IF g.run
            THEN /\ pc' = [pc EXCEPT ![t] = "exec"]
                 /\ inflight' = inflight \cup {call.id}
                 /\ trace' = [trace EXCEPT ![t] = Append(@, rec)]
                 /\ UNCHANGED << Settings, gated, RegistryView, turn, messages, depth, response, idx,
                                 providerCalls, effects, Counters, failed, returned >>
            ELSE LET r == _execute_tool(call.name, [exc |-> g.exc, result |-> NoText], FALSE) IN
                 IF r.raised # "none"
                 THEN Raise(t, r.raised)
                 ELSE /\ messages' = Append(messages, Message("tool", r.text, call.id))
                      /\ idx' = [idx EXCEPT ![t] = @ + 1]
                      /\ trace' = [trace EXCEPT ![t] =
                                     Append(@, [rec EXCEPT !.text = r.text])]
                      /\ UNCHANGED << Settings, gated, RegistryView, turn, pc, depth, response, providerCalls,
                                      inflight, effects, Counters, failed,
                                      returned >>

\* the awaited body ends (result, exception or timeout), the usage recording
\* runs, and the tool-role message is appended
ToolComplete(t) ==
    /\ pc[t] = "exec"
    /\ \E outcome \in BodyOutcomes, recordFails \in BOOLEAN :
         /\ recordFails => outcome = "ok"
         /\ LET call == response[t].tool_calls[idx[t]]
                reg  == execute_tool_body(call.name, outcome)
                r    == _execute_tool(call.name, reg, recordFails)
                rec  == [Last(trace[t]) EXCEPT !.done = TRUE, !.exc = reg.exc,
                                               !.result = reg.result,
                                               !.text = r.text,
                                               !.outcome = outcome,
                                               !.record_failed = recordFails]
            IN
            /\ inflight' = InflightAfter(inflight, call.id, outcome)
            /\ effects' = IF outcome = "ok" THEN effects \cup {call.id} ELSE effects
            /\ IF r.raised # "none"
               THEN /\ Idle(t)
                    /\ failed' = [failed EXCEPT ![t] = r.raised]
                    /\ UNCHANGED << Config, gated, RegistryView, turn, messages, Counters, returned >>
               ELSE /\ messages' = Append(messages, Message("tool", r.text, call.id))
                    /\ idx' = [idx EXCEPT ![t] = @ + 1]
                    /\ pc' = [pc EXCEPT ![t] = "tools"]
                    /\ trace' = [trace EXCEPT ![t][Len(trace[t])] = rec]
                    /\ UNCHANGED << Config, gated, RegistryView, turn, depth, response, providerCalls,
                                    Counters, failed, returned >>

\* after the for loop: depth += 1, then continue (next provider call, or the
\* loop condition fails) or break with the response's content
ToolsDone(t) ==
    /\ pc[t] = "tools"
    /\ idx[t] > Len(response[t].tool_calls)
    /\ LET d == depth[t] + 1 IN
       IF ContinueAfterTools(response[t].content) /\ LoopCondition(d)
       THEN /\ depth' = [depth EXCEPT ![t] = d]
            /\ pc' = [pc EXCEPT ![t] = "await_llm"]
            /\ providerCalls' = [providerCalls EXCEPT ![t] = @ + 1]
            /\ response' = [response EXCEPT ![t] = NoResponse]
            /\ idx' = [idx EXCEPT ![t] = 0]
            /\ trace' = [trace EXCEPT ![t] = << >>]
            /\ effects' = {}
            /\ UNCHANGED << Config, gated, RegistryView, turn, messages, inflight, Counters, failed,
                            returned >>
       ELSE Return(t, messages,
                   FinalText(response[t].content, d >= max_tool_depth))

\* chat_loop's "clear" command: agent.reset_conversation()
ResetConversation ==
    /\ \A t \in Tasks : pc[t] = "idle"
    /\ Len(messages) > 1
    /\ messages' = reset_conversation(messages)
    /\ UNCHANGED << Config, gated, RegistryView, turn, pc, depth, response, idx, providerCalls, trace,
                    inflight, effects, Counters, failed, returned >>

\* ----------------------------------------------------------- specification
\* after main()'s startup: tools registered, an Agent constructed.  Either the
\* limits vary under the default wiring (handler set, approval required, no
\* auto-approve), or the wiring and the gate's flags vary with a tool depth
\* of one round
Init ==
    /\ \/ /\ max_conversation_length \in 1..MaxConvLen
          /\ max_tool_depth \in 0..MaxDepth
          /\ _approval_handler = "main"
          /\ require_approval = TRUE
          /\ _auto_approve_all = FALSE
       \/ /\ max_conversation_length = MaxConvLen
          /\ max_tool_depth = 1
          /\ _approval_handler \in {"none", "main"}
          /\ require_approval \in BOOLEAN
          /\ _auto_approve_all \in BOOLEAN
    /\ messages = << SystemMessage >>
    /\ _tools = RegisteredAtStartup
    /\ pc = [t \in Tasks |-> "idle"]
    /\ depth = [t \in Tasks |-> 0]
    /\ response = [t \in Tasks |-> NoResponse]
    /\ idx = [t \in Tasks |-> 0]
    /\ providerCalls = [t \in Tasks |-> 0]
    /\ trace = [t \in Tasks |-> << >>]
    /\ inflight = {}
    /\ effects = {}
    /\ turnNo = 0
    /\ turn = [t \in Tasks |-> 0]
    /\ dispatched = 0
    /\ failed = [t \in Tasks |-> "none"]
    /\ returned = [t \in Tasks |-> NoReturn]
    /\ gate_approval_handler = "none"
    /\ gated = NoGated
    /\ listed = NotListed
    /\ stamp = NoStamps
    /\ clock = 0

Next ==
    \/ \E t \in Tasks : turnNo < MaxTurns /\ Serialized(t) /\ ChatStart(t)
    \/ \E t \in Tasks : LLMRespond(t)
    \/ \E t \in Tasks : LLMRaise(t)
    \/ \E t \in Tasks : ToolDispatch(t)
    \/ \E t \in Tasks : ToolComplete(t)
    \/ \E t \in Tasks : ToolsDone(t)
    \/ ResetConversation

Spec == Init /\ [][Next]_vars

\* conversations handed to _trim_conversation on its own: the system message,
\* then any messages of the other three roles
TrimAlphabet ==
    { UserMessage(1),
      Message("assistant", FinalText("answer", FALSE), NoId),
      Message("tool", ToolResult("read_file"), << 1, 0, 1 >>) }

TrimInputs ==
    UNION { { << SystemMessage >> \o s : s \in [1..n -> TrimAlphabet] } :
            n \in 0..(MaxTrimLen - 1) }

InitTrim ==
    /\ max_conversation_length \in 1..MaxConvLen
    /\ max_tool_depth = 0
    /\ messages \in TrimInputs
    /\ _tools = RegisteredAtStartup
    /\ _approval_handler = "main"
    /\ require_approval = TRUE
    /\ _auto_approve_all = FALSE
    /\ pc = [t \in Tasks |-> IF t = 1 THEN "trim" ELSE "idle"]
    /\ depth = [t \in Tasks |-> 0]
    /\ response = [t \in Tasks |-> NoResponse]
    /\ idx = [t \in Tasks |-> 0]
    /\ providerCalls = [t \in Tasks |-> 0]
    /\ trace = [t \in Tasks |-> << >>]
    /\ inflight = {}
    /\ effects = {}
    /\ turnNo = 0
    /\ turn = [t \in Tasks |-> 0]
    /\ dispatched = 0
    /\ failed = [t \in Tasks |-> "none"]
    /\ returned = [t \in Tasks |-> NoReturn]
    /\ gate_approval_handler = "none"
    /\ gated = NoGated
    /\ listed = NotListed
    /\ stamp = NoStamps
    /\ clock = 0

\* self._trim_conversation() applied to the conversation as it stands
TrimConversation ==
    /\ pc[1] = "trim"
    /\ messages' = _trim_conversation(messages, max_conversation_length)
    /\ pc' = [pc EXCEPT ![1] = "idle"]
    /\ UNCHANGED << Config, gated, RegistryView, turn, depth, response, idx, providerCalls, trace,
                    inflight, effects, Counters, failed, returned >>

NextTrim == TrimConversation

SpecTrim == InitTrim /\ [][NextTrim]_vars

\* the registries a dispatch may meet: tools of the pool under distinct names,
\* in any registration order
Registries ==
    UNION { { r \in [1..n -> ToolPool] :
                \A i, j \in 1..n : i # j => r[i].name # r[j].name } :
            n \in 0..MaxRegistry }

\* one dispatch on its own: a turn whose provider response carries one tool
\* call, under any registry and any name
InitLookup ==
    /\ max_conversation_length = MaxConvLen
    /\ max_tool_depth = 1
    /\ messages = << SystemMessage, UserMessage(1) >>
    /\ _tools \in Registries
    /\ _approval_handler = "main"
    /\ require_approval = TRUE
    /\ _auto_approve_all = FALSE
    /\ pc = [t \in Tasks |-> IF t = 1 THEN "tools" ELSE "idle"]
    /\ depth = [t \in Tasks |-> 0]
    /\ \E name \in AllNames :
          response = [t \in Tasks |->
                        IF t = 1
                        THEN [content |-> "",
                              tool_calls |-> << [id |-> << 1, 0, 1 >>, name |-> name] >>]
                        ELSE NoResponse]
    /\ idx = [t \in Tasks |-> IF t = 1 THEN 1 ELSE 0]
    /\ providerCalls = [t \in Tasks |-> IF t = 1 THEN 1 ELSE 0]
    /\ trace = [t \in Tasks |-> << >>]
    /\ inflight = {}
    /\ effects = {}
    /\ turnNo = 1
    /\ turn = [t \in Tasks |-> IF t = 1 THEN 1 ELSE 0]
    /\ dispatched = 1
    /\ failed = [t \in Tasks |-> "none"]
    /\ returned = [t \in Tasks |-> NoReturn]
    /\ gate_approval_handler = "none"
    /\ gated = NoGated
    /\ listed = NotListed
    /\ stamp = NoStamps
    /\ clock = 0

NextLookup == ToolDispatch(1)

SpecLookup == InitLookup /\ [][NextLookup]_vars

\* ------------------------------------------------- the approval gate alone
\* the operations and keyword arguments a caller hands to the gate
Operations == {"write_file", "read_file", "git_commit", "list_directory"}

PathValues == {"/etc/passwd", "/tmp/x.txt", "/ETC/Shadow", "notes/.env"}

\* **kwargs: none, a path, or arguments under other names
KwargsSet ==
    { << >> } \cup { [path |-> p] : p \in PathValues }
              \cup { [message |-> "wip"], [file |-> "/etc/passwd"] }

\* request_approval was not called
NoRequest == [approved |-> FALSE, handler_called |-> FALSE, prompt_called |-> FALSE]

\* what executor(**kwargs) returns
ExecutorResult(kwargs) == [kind |-> "executor_result", kwargs |-> kwargs]

NoResult == [kind |-> "none"]

\* a slip: a declined request does not raise, the executor runs anyway
ExecuteWithApprovalRunsAnyway(operation, kwargs, handlerAnswer, promptInput) ==
    LET request == request_approval(handlerAnswer, promptInput) IN
    IF needs_approval(operation, kwargs)
    THEN [needs |-> TRUE, requested |-> TRUE, request |-> request,
          run |-> TRUE, raised |-> "none"]
    ELSE [needs |-> FALSE, requested |-> FALSE, request |-> NoRequest,
          run |-> TRUE, raised |-> "none"]

\* ApprovalSystem.execute_with_approval up to the await of the executor:
\* run: the executor is invoked; raised: the exception raised instead
execute_with_approval(operation, kwargs, handlerAnswer, promptInput) ==
    LET request == request_approval(handlerAnswer, promptInput) IN
    IF needs_approval(operation, kwargs)
    THEN [needs |-> TRUE, requested |-> TRUE, request |-> request,
          run |-> request.approved,
          raised |-> IF request.approved THEN "none" ELSE "ApprovalDeniedError"]
    ELSE [needs |-> FALSE, requested |-> FALSE, request |-> NoRequest,
          run |-> TRUE, raised |-> "none"]

\* the state of the chat() turns
ChatVars == << messages, pc, depth, response, idx, providerCalls, trace,
               inflight, effects, turnNo, turn, dispatched, failed, returned >>

\* the state of the agent, which the gate does not touch
AgentVars == << ChatVars, RegistryView >>

\* await approval_system.execute_with_approval(operation, executor, **kwargs)
\* up to the await of the executor
ExecuteWithApproval ==
    /\ gated.state = "none"
    /\ \E operation \in Operations, kwargs \in KwargsSet,
          handlerAnswer \in BOOLEAN, promptInput \in PromptInputs :
         LET e == execute_with_approval(operation, kwargs, handlerAnswer, promptInput) IN
         gated' = [state |-> IF e.run THEN "executing" ELSE "raised",
                   call |-> "execute_with_approval",
                   operation |-> operation, kwargs |-> kwargs,
                   handlerAnswer |-> handlerAnswer, promptInput |-> promptInput,
                   needs |-> e.needs, requested |-> e.requested,
                   request |-> e.request,
                   executor_calls |-> IF e.run THEN 1 ELSE 0,
                   executor_kwargs |-> IF e.run THEN kwargs ELSE << >>,
                   result |-> NoResult, raised |-> e.raised]
    /\ UNCHANGED << Config, AgentVars >>

\* the awaited executor returns: its result is the result of the call
ExecutorReturns ==
    /\ gated.state = "executing"
    /\ gated' = [gated EXCEPT !.state = "returned",
                              !.result = ExecutorResult(gated.executor_kwargs)]
    /\ UNCHANGED << Config, AgentVars >>

\* the awaited executor raises: its exception leaves execute_with_approval
ExecutorRaises ==
    /\ gated.state = "executing"
    /\ gated' = [gated EXCEPT !.state = "raised", !.raised = "ExecutorError"]
    /\ UNCHANGED << Config, AgentVars >>

\* approval_system.request_approval(request) called on its own, as
\* __main__.approval_handler does
RequestApproval ==
    /\ gated.state = "none"
    /\ \E handlerAnswer \in BOOLEAN, promptInput \in PromptInputs :
         gated' = [state |-> "returned", call |-> "request_approval",
                   handlerAnswer |-> handlerAnswer, promptInput |-> promptInput,
                   requested |-> TRUE,
                   request |-> request_approval(handlerAnswer, promptInput)]
    /\ UNCHANGED << Config, AgentVars >>

\* an ApprovalSystem under any flags, with or without a handler of its own
InitApproval ==
    /\ max_conversation_length = MaxConvLen
    /\ max_tool_depth = 1
    /\ messages = << SystemMessage >>
    /\ _tools = RegisteredAtStartup
    /\ _approval_handler = "main"
    /\ require_approval \in BOOLEAN
    /\ _auto_approve_all \in BOOLEAN
    /\ gate_approval_handler \in {"none", "custom"}
    /\ pc = [t \in Tasks |-> "idle"]
    /\ depth = [t \in Tasks |-> 0]
    /\ response = [t \in Tasks |-> NoResponse]
    /\ idx = [t \in Tasks |-> 0]
    /\ providerCalls = [t \in Tasks |-> 0]
    /\ trace = [t \in Tasks |-> << >>]
    /\ inflight = {}
    /\ effects = {}
    /\ turnNo = 0
    /\ turn = [t \in Tasks |-> 0]
    /\ dispatched = 0
    /\ failed = [t \in Tasks |-> "none"]
    /\ returned = [t \in Tasks |-> NoReturn]
    /\ gated = NoGated
    /\ listed = NotListed
    /\ stamp = NoStamps
    /\ clock = 0

NextApproval ==
    \/ ExecuteWithApproval
    \/ ExecutorReturns
    \/ ExecutorRaises
    \/ RequestApproval

SpecApproval == InitApproval /\ [][NextApproval]_vars

\* ------------------------------------------- one dispatch as main() wires it
\* tools of register_all_tools, with the flags their metadata declares
WiredRegistry ==
    << [name |-> "read_file",      requires_approval |-> FALSE, category |-> "files"],
       [name |-> "write_file",     requires_approval |-> TRUE,  category |-> "files"],
       [name |-> "list_directory", requires_approval |-> FALSE, category |-> "files"],
       [name |-> "git_status",     requires_approval |-> FALSE, category |-> "git"],
       [name |-> "git_commit",     requires_approval |-> TRUE,  category |-> "git"] >>

\* the tool calls a provider may send: a registered name with any arguments
WiredCalls ==
    { [id |-> << 1, 0, 1 >>, name |-> WiredRegistry[i].name, arguments |-> kwargs] :
        i \in 1..Len(WiredRegistry), kwargs \in KwargsSet }

\* main(): tools registered, registry handler delegating to the ApprovalSystem
\* (which has no handler of its own), approval required, auto-approve off; the
\* agent is about to dispatch the one tool call of a provider response
InitWired ==
    /\ max_conversation_length = MaxConvLen
    /\ max_tool_depth = 1
    /\ messages = << SystemMessage, UserMessage(1) >>
    /\ _tools = WiredRegistry
    /\ _approval_handler = "main"
    /\ require_approval = TRUE
    /\ _auto_approve_all = FALSE
    /\ pc = [t \in Tasks |-> IF t = 1 THEN "tools" ELSE "idle"]
    /\ depth = [t \in Tasks |-> 0]
    /\ \E call \in WiredCalls :
          response = [t \in Tasks |->
                        IF t = 1
                        THEN [content |-> "", tool_calls |-> << call >>]
                        ELSE NoResponse]
    /\ idx = [t \in Tasks |-> IF t = 1 THEN 1 ELSE 0]
    /\ providerCalls = [t \in Tasks |-> IF t = 1 THEN 1 ELSE 0]
    /\ trace = [t \in Tasks |-> << >>]
    /\ inflight = {}
    /\ effects = {}
    /\ turnNo = 1
    /\ turn = [t \in Tasks |-> IF t = 1 THEN 1 ELSE 0]
    /\ dispatched = 1
    /\ failed = [t \in Tasks |-> "none"]
    /\ returned = [t \in Tasks |-> NoReturn]
    /\ gate_approval_handler = "none"
    /\ gated = NoGated
    /\ listed = NotListed
    /\ stamp = NoStamps
    /\ clock = 0

NextWired ==
    \/ ToolDispatch(1)
    \/ ToolComplete(1)

SpecWired == InitWired /\ [][NextWired]_vars

TypeOK ==
    /\ Len(messages) >= 1
    /\ \A t \in Tasks : pc[t] \in {"idle", "await_llm", "tools", "exec", "trim"}

\* ------------------------------------- chat() calls that are not serialized
\* a caller that issues one chat() per task, and the second one only while the
\* first is suspended at an await
Overlapping(t) == turn[t] = 0 /\ (t = 1 \/ pc[1] # "idle")

\* a conversation long enough that no turn of this run is trimmed; one tool
\* round per turn suspends a call at both kinds of await
ConcurrentConvLen == 2 * Cardinality(Tasks) + MaxToolCalls + 2

InitConcurrent ==
    /\ max_conversation_length = ConcurrentConvLen
    /\ max_tool_depth = 1
    /\ _approval_handler = "main"
    /\ gate_approval_handler = "none"
    /\ require_approval = TRUE
    /\ _auto_approve_all = FALSE
    /\ messages = << SystemMessage >>
    /\ _tools = RegisteredAtStartup
    /\ pc = [t \in Tasks |-> "idle"]
    /\ depth = [t \in Tasks |-> 0]
    /\ response = [t \in Tasks |-> NoResponse]
    /\ idx = [t \in Tasks |-> 0]
    /\ providerCalls = [t \in Tasks |-> 0]
    /\ trace = [t \in Tasks |-> << >>]
    /\ inflight = {}
    /\ effects = {}
    /\ turnNo = 0
    /\ turn = [t \in Tasks |-> 0]
    /\ dispatched = 0
    /\ failed = [t \in Tasks |-> "none"]
    /\ returned = [t \in Tasks |-> NoReturn]
    /\ gated = NoGated
    /\ listed = NotListed
    /\ stamp = NoStamps
    /\ clock = 0

NextConcurrent ==
    \/ \E t \in Tasks : Overlapping(t) /\ ChatStart(t)
    \/ \E t \in Tasks : LLMRespond(t)
    \/ \E t \in Tasks : LLMRaise(t)
    \/ \E t \in Tasks : ToolDispatch(t)
    \/ \E t \in Tasks : ToolComplete(t)
    \/ \E t \in Tasks : ToolsDone(t)

SpecConcurrent == InitConcurrent /\ [][NextConcurrent]_vars

\* ------------------------------------------- the registry and its listing
\* Python values a parameter declaration may carry, with their type and repr
PyNone == [py |-> "NoneType", repr |-> "None", items |-> << >>]
PyFalse == [py |-> "bool", repr |-> "False", items |-> << >>]
PyZero == [py |-> "int", repr |-> "0", items |-> << >>]
PyStr(text) == [py |-> "str", repr |-> text, items |-> << >>]
PyList(items) == [py |-> "list", repr |-> "", items |-> items]

\* bool(v) of Python: None, False, 0, "" and [] are false
Truthy(v) ==
    CASE v.py = "NoneType" -> FALSE
      [] v.py = "bool"     -> v.repr = "True"
      [] v.py = "int"      -> v.repr # "0"
      [] v.py = "str"      -> v.repr # ""
      [] OTHER             -> Len(v.items) > 0

\* ToolParameter(name, type, description, required=True, default=None, enum=None)
ToolParameter(name, required, default, enum) ==
    [name |-> name, type |-> "string", description |-> "about " \o name,
     required |-> required, default |-> default, enum |-> enum]

\* d[key] = value on a dict kept as the sequence of its items: a key the dict
\* has keeps its place, a new key goes to the end
DictSet(d, key, value) ==
    IF \E i \in 1..Len(d) : d[i].key = key
    THEN [i \in 1..Len(d) |->
            IF d[i].key = key THEN [key |-> key, value |-> value] ELSE d[i]]
    ELSE Append(d, [key |-> key, value |-> value])

\* param_schema with "enum" if param.enum
WithEnum(param, schema) ==
    IF Truthy(param.enum) THEN ("enum" :> param.enum) @@ schema ELSE schema

\* param_schema with "default" if param.default is not None
WithDefault(param, schema) ==
    IF param.default # PyNone THEN ("default" :> param.default) @@ schema ELSE schema

\* param_schema of one pass of the loop of to_json_schema
ParamSchema(param) ==
    WithDefault(param, WithEnum(param,
        [type |-> param.type, description |-> param.description]))

\* properties after the first k passes of the loop of to_json_schema
RECURSIVE Properties(_, _)
Properties(parameters, k) ==
    IF k = 0 THEN << >>
    ELSE DictSet(Properties(parameters, k - 1), parameters[k].name,
                 ParamSchema(parameters[k]))

\* required after the loop of to_json_schema
RequiredNames(parameters) ==
    LET sel == SelectSeq(parameters, LAMBDA param : param.required)
    IN  [k \in 1..Len(sel) |-> sel[k].name]

\* Tool.to_json_schema
to_json_schema(parameters) ==
    [type |-> "object",
     properties |-> Properties(parameters, Len(parameters)),
     required |-> RequiredNames(parameters)]

\* a slip: register moves a tool that is replaced to the end
RegisterMovesToEnd(tools, tool) ==
    Append(SelectSeq(tools, LAMBDA other : other.name # tool.name), tool)

\* ToolRegistry.register: self._tools[tool.metadata.name] = tool
register(tools, tool) ==
    IF \E i \in 1..Len(tools) : tools[i].name = tool.name
    THEN [i \in 1..Len(tools) |-> IF tools[i].name = tool.name THEN tool ELSE tools[i]]
    ELSE Append(tools, tool)

\* ToolRegistry.unregister: del self._tools[name] if name is there
unregister(tools, name) == SelectSeq(tools, LAMBDA tool : tool.name # name)

\* ToolRegistry.get_tools_for_llm
get_tools_for_llm(tools) ==
    [i \in 1..Len(tools) |->
        [name |-> tools[i].name,
         description |-> tools[i].description,
         parameters |-> to_json_schema(tools[i].parameters)]]

\* the registration of tool at call number now, as a caller sees it: a name
\* that is registered keeps the time of its insertion and counts one more write
Stamped(tool, now) ==
    [n \in DOMAIN stamp \cup {tool.name} |->
        IF n # tool.name THEN stamp[n]
        ELSE IF n \in DOMAIN stamp
             THEN [at |-> stamp[n].at, writes |-> stamp[n].writes + 1, tool |-> tool]
             ELSE [at |-> now, writes |-> 1, tool |-> tool]]

\* registry.register(tool)
Register(tool) ==
    /\ _tools' = register(_tools, tool)
    /\ stamp' = Stamped(tool, clock + 1)
    /\ clock' = clock + 1
    /\ listed' = NotListed
    /\ UNCHANGED << Settings, ChatVars, gated >>

\* registry.unregister(name)
Unregister(name) ==
    /\ _tools' = unregister(_tools, name)
    /\ stamp' = [n \in DOMAIN stamp \ {name} |-> stamp[n]]
    /\ clock' = clock + 1
    /\ listed' = NotListed
    /\ UNCHANGED << Settings, ChatVars, gated >>

\* registry.get_tools_for_llm(), as chat() calls it for every provider call
GetToolsForLLM ==
    /\ listed' = [called |-> TRUE, tools |-> get_tools_for_llm(_tools)]
    /\ UNCHANGED << Config, ChatVars, gated, stamp, clock >>

\* names tools are registered under
RegistryNames == {"read_file", "git_status", "fetch_url"}

\* tools a caller registers: under each name two tools that differ
RegistryTools ==
    { [name |-> n, description |-> d,
       parameters |-> << ToolParameter("path", d = "first", PyNone, PyNone) >>] :
      n \in RegistryNames, d \in {"first", "second"} }

\* a registry and an agent just constructed
InitRegistry ==
    /\ max_conversation_length = MaxConvLen
    /\ max_tool_depth = MaxDepth
    /\ messages = << SystemMessage >>
    /\ _tools = << >>
    /\ _approval_handler = "none"
    /\ require_approval = TRUE
    /\ _auto_approve_all = FALSE
    /\ pc = [t \in Tasks |-> "idle"]
    /\ depth = [t \in Tasks |-> 0]
    /\ response = [t \in Tasks |-> NoResponse]
    /\ idx = [t \in Tasks |-> 0]
    /\ providerCalls = [t \in Tasks |-> 0]
    /\ trace = [t \in Tasks |-> << >>]
    /\ inflight = {}
    /\ effects = {}
    /\ turnNo = 0
    /\ turn = [t \in Tasks |-> 0]
    /\ dispatched = 0
    /\ failed = [t \in Tasks |-> "none"]
    /\ returned = [t \in Tasks |-> NoReturn]
    /\ gate_approval_handler = "none"
    /\ gated = NoGated
    /\ listed = NotListed
    /\ stamp = NoStamps
    /\ clock = 0

NextRegistry ==
    \/ clock < MaxRegOps /\ \E tool \in RegistryTools : Register(tool)
    \/ clock < MaxRegOps /\ \E name \in RegistryNames : Unregister(name)
    \/ GetToolsForLLM

SpecRegistry == InitRegistry /\ [][NextRegistry]_vars

\* names, defaults and enums of the parameters a tool may declare
ParamNames == {"path", "mode", "force"}
Defaults == {PyNone, PyFalse, PyZero, PyStr("main")}
Enums == {PyNone, PyList(<< >>), PyList(<< "staged", "all" >>)}

Declarations ==
    { ToolParameter(name, required, default, enum) :
        name \in ParamNames, required \in BOOLEAN,
        default \in Defaults, enum \in Enums }

\* the parameter lists of a tool: up to MaxParams declarations, no name twice
ParameterLists ==
    { ps \in UNION { [1..n -> Declarations] : n \in 0..MaxParams } :
        \A i, j \in 1..Len(ps) : i # j => ps[i].name # ps[j].name }

\* one tool with whatever parameters, registered once and then listed
DeclaredTools ==
    { [name |-> "git_diff", description |-> "first", parameters |-> ps] :
        ps \in ParameterLists }

NextSchema ==
    \/ clock = 0 /\ \E tool \in DeclaredTools : Register(tool)
    \/ GetToolsForLLM

SpecSchema == InitRegistry /\ [][NextSchema]_vars

\* ------------------------------------------------------------------ claims
Busy(t) == pc[t] # "idle"

\* how far a turn is from its end: rounds left, less the position in the round
Rank(t) ==
    IF pc[t] = "idle" THEN 0
    ELSE (max_tool_depth - depth[t]) * (2 * MaxCalls + 2)
         - (CASE pc[t] = "await_llm" -> 0
              [] pc[t] = "tools"     -> 2 * idx[t] - 1
              [] OTHER               -> 2 * idx[t])

\* C1: one chat() turn issues at most max_tool_depth provider calls, whatever
\* the provider answers, and ends: every step of a running turn brings it
\* strictly closer to its return (Rank decreases and is 0 only when idle)
C1_AtMostDepthProviderCalls ==
    /\ [](\A t \in Tasks : /\ providerCalls[t] <= max_tool_depth
                           /\ Busy(t) => Rank(t) > 0)
    /\ [][\A t \in Tasks :
            (Busy(t) /\ << pc[t], depth[t], idx[t] >> # << pc'[t], depth'[t], idx'[t] >>)
               => Rank(t)' < Rank(t)]_vars

\* the last provider call the depth bound allows is in flight, after
\* tool-calling rounds
C1_Witness ==
    \E t \in Tasks : /\ pc[t] = "await_llm"
                     /\ max_tool_depth = MaxDepth
                     /\ providerCalls[t] = max_tool_depth
                     /\ depth[t] = max_tool_depth - 1

\* C2: the body of a tool with requires_approval=True runs only after the
\* handler was invoked for that dispatch and returned true; when the handler
\* returns false the dispatch fails with ToolApprovalDenied and the body is
\* never invoked
C2_BodyOnlyAfterApproval ==
    \A t \in Tasks : \A i \in 1..Len(trace[t]) :
        LET r == trace[t][i] IN
        /\ (r.ran /\ get_tool(r.name).requires_approval) => (r.asked /\ r.answer)
        /\ (r.asked /\ ~r.answer) =>
              (~r.ran /\ r.exc.type = "ToolApprovalDenied" /\ r.result = NoText)

\* one response whose first gated call was declined and whose second was
\* approved and ran
C2_Witness ==
    \E t \in Tasks :
        /\ Len(trace[t]) = 2
        /\ get_tool(trace[t][1].name).requires_approval
        /\ trace[t][1].asked /\ ~trace[t][1].answer /\ ~trace[t][1].ran
        /\ get_tool(trace[t][2].name).requires_approval
        /\ trace[t][2].asked /\ trace[t][2].answer /\ trace[t][2].ran
        /\ trace[t][2].done

\* C3: with no approval handler on the registry, the dispatch of a registered
\* tool with requires_approval=True fails with ToolApprovalDenied and its body
\* is not invoked, whatever require_approval and the auto-approve flag are
C3_NoHandlerFailsClosed ==
    \A t \in Tasks : \A i \in 1..Len(trace[t]) :
        LET r == trace[t][i] IN
        (_approval_handler = "none" /\ get_tool(r.name) # None
            /\ get_tool(r.name).requires_approval)
          => (~r.ran /\ ~r.asked /\ r.exc.type = "ToolApprovalDenied"
                /\ r.done /\ r.text = ErrorMsg(r.name, r.exc.msg))

\* a gated call was dispatched with no handler while approval is globally off
\* and auto-approve is on
C3_Witness ==
    \E t \in Tasks : \E i \in 1..Len(trace[t]) :
        /\ _approval_handler = "none"
        /\ ~require_approval /\ _auto_approve_all
        /\ get_tool(trace[t][i].name).requires_approval
        /\ trace[t][i].done

\* the messages appended for the finished dispatches of the current response
DoneCount(t) == Cardinality({i \in 1..Len(trace[t]) : trace[t][i].done})
MessageOf(t, i) == messages[Len(messages) - DoneCount(t) + i]

\* C4: a failed tool dispatch (unknown name, approval denied, timeout, exception
\* in the body) does not make chat() raise: its error text is the content of
\* that call's tool-role message, and the loop over the response's tool calls
\* moves on to the next call
C4_ToolFailureDoesNotAbort ==
    \A t \in Tasks :
        /\ failed[t] \in {"none", "LLMError"}
        /\ \A i \in 1..Len(trace[t]) :
             LET r == trace[t][i] IN
             (r.done /\ r.exc.type # "none") =>
                /\ pc[t] \in {"tools", "exec"}
                /\ idx[t] > i
                /\ MessageOf(t, i) = Message("tool", ErrorMsg(r.name, r.exc.msg), r.id)

\* the first call of a response failed and the second was still run
C4_Witness ==
    \E t \in Tasks :
        /\ Len(trace[t]) = 2
        /\ trace[t][1].exc.type = "ToolNotFoundError"
        /\ trace[t][2].ran /\ trace[t][2].done
        /\ trace[t][2].exc.type = "ToolExecutionError"

\* the finished tool-calling round of task t: every call of the response has
\* been dispatched and its message appended, the loop is about to leave
RoundDone(t) ==
    pc[t] = "tools" /\ idx[t] = Len(response[t].tool_calls) + 1

\* C5: for a response carrying tool calls c1..ck exactly k tool-role messages
\* are appended, in the order c1..ck, the i-th with tool_call_id = ci.id and
\* with the text the dispatch of ci produced as content: the tool's result
\* verbatim when the dispatch succeeded, the error text when it failed
C5_ToolMessagesInOrder ==
    \A t \in Tasks :
        RoundDone(t) =>
            LET calls == response[t].tool_calls
                k     == Len(calls)
            IN
            /\ Len(messages) > k
            /\ Len(trace[t]) = k
            /\ Cardinality({ j \in 1..Len(messages) :
                   \E i \in 1..k : messages[j].tool_call_id = calls[i].id }) = k
            /\ \A i \in 1..k :
                 LET m == messages[Len(messages) - k + i]
                     r == trace[t][i]
                 IN
                 /\ m.role = "tool"
                 /\ m.tool_call_id = calls[i].id
                 /\ m.content = IF r.exc.type = "none" THEN r.result
                                ELSE ErrorMsg(r.name, r.exc.msg)

\* the bodies of task t's current response that are in flight
TaskInflight(t) ==
    { c \in inflight :
        \E i \in 1..Len(response[t].tool_calls) : response[t].tool_calls[i].id = c }

\* C6: within one turn at most one tool execution is in flight; when the body
\* of call i runs, every earlier call of the response has finished (or was
\* cancelled by its timeout), its tool-role message is appended, and the body
\* starts on the side effects every earlier completed body left
C6_OneToolInFlight ==
    \A t \in Tasks :
        /\ Cardinality(TaskInflight(t)) <= 1
        /\ pc[t] # "exec" => TaskInflight(t) = {}
        /\ pc[t] = "exec" =>
             LET calls == response[t].tool_calls
                 i     == idx[t]
             IN
             /\ TaskInflight(t) = { calls[i].id }
             /\ Len(trace[t]) = i
             /\ \A j \in 1..(i - 1) :
                  /\ trace[t][j].done
                  /\ MessageOf(t, j).role = "tool"
                  /\ MessageOf(t, j).tool_call_id = calls[j].id
             /\ trace[t][i].saw =
                  { calls[j].id : j \in { n \in 1..(i - 1) :
                        trace[t][n].ran /\ trace[t][n].exc.type = "none" } }

\* the second call of a response runs after the first timed out
C6_Witness ==
    \E t \in Tasks :
        /\ pc[t] = "exec"
        /\ idx[t] = 2
        /\ trace[t][1].ran
        /\ trace[t][1].exc.msg = "timed out"

\* C7: in every reachable state the message at index 0 of the conversation is
\* the system message created at construction
C7_SystemMessageFirst ==
    /\ Len(messages) >= 1
    /\ messages[1] = SystemMessage

\* between turns, after trimming evicted the turn's user message
C7_Witness ==
    /\ \A t \in Tasks : pc[t] = "idle"
    /\ max_conversation_length >= 2
    /\ Len(messages) = max_conversation_length
    /\ messages[2].role \in {"tool", "assistant"}

\* C8: in every reachable state the conversation holds exactly one message
\* with role system
C8_ExactlyOneSystemMessage ==
    Cardinality({ i \in 1..Len(messages) : messages[i].role = "system" }) = 1

\* C9: _trim_conversation on M > N messages leaves exactly N: message 0, then
\* the last N-1 in their order; on M <= N it leaves the conversation unchanged
C9_TrimKeepsHeadAndTail ==
    [][pc[1] = "trim" =>
         LET M == Len(messages)
             N == max_conversation_length
         IN
         IF M > N
         THEN /\ Len(messages') = N
              /\ messages'[1] = messages[1]
              /\ \A i \in 2..N : messages'[i] = messages[M - N + i]
         ELSE messages' = messages]_vars

\* C10: whenever no chat() is in flight the conversation holds at most
\* max_conversation_length messages
C10_BoundedWhenIdle ==
    (\A t \in Tasks : pc[t] = "idle")
        => Len(messages) <= max_conversation_length

\* C11: when the depth counter of a turn reaches max_tool_depth without a
\* plain-text answer (the last allowed round carried tool calls, or
\* max_tool_depth is 0), chat() still returns: no exception, and the returned
\* text is the response's partial content with the "Max tool depth reached"
\* notice, stored as the turn's assistant message at the end of the conversation
C11_DepthNoticeOnLimit ==
    [][/\ \A t \in Tasks :
            (pc[t] = "tools" /\ pc'[t] = "idle" /\ depth[t] + 1 >= max_tool_depth)
               => /\ failed'[t] = "none"
                  /\ returned'[t] = [text |-> response[t].content, notice |-> TRUE]
                  /\ Last(messages') = Message("assistant", returned'[t], NoId)
       /\ (turnNo' = turnNo + 1 /\ max_tool_depth = 0)
               => \E t \in Tasks :
                     /\ pc'[t] = "idle" /\ failed'[t] = "none"
                     /\ returned'[t] = [text |-> "", notice |-> TRUE]
                     /\ Last(messages') = Message("assistant", returned'[t], NoId)
      ]_vars

\* a turn returned partial content with the notice after its last allowed
\* tool-calling round
C11_Witness ==
    \E t \in Tasks :
        /\ pc[t] = "idle"
        /\ max_tool_depth = MaxDepth
        /\ returned[t] = [text |-> "answer", notice |-> TRUE]
        /\ Len(messages) >= 2
        /\ messages[Len(messages) - 1].role = "tool"
        /\ messages[Len(messages) - 1].tool_call_id[2] = MaxDepth - 1

\* the step that leaves the for loop over the tool calls of task t's response
RoundEnds(t) ==
    /\ pc[t] = "tools"
    /\ idx[t] > Len(response[t].tool_calls)
    /\ pc'[t] # "tools"

\* the loop goes round: one more provider call, issued on a message list that
\* ends with the tool-role results of the round just finished
NextProviderCall(t) ==
    LET calls == response[t].tool_calls
        k     == Len(calls)
    IN
    /\ pc'[t] = "await_llm"
    /\ providerCalls'[t] = providerCalls[t] + 1
    /\ depth'[t] = depth[t] + 1
    /\ Len(messages') > k
    /\ \A i \in 1..k :
         /\ messages'[Len(messages') - k + i].role = "tool"
         /\ messages'[Len(messages') - k + i].tool_call_id = calls[i].id

\* chat() of task t returns in this step
TurnReturns(t) == Busy(t) /\ pc'[t] = "idle" /\ failed'[t] = "none"

\* C12 as stated: whenever a response carried tool calls and the depth after
\* executing them is below max_tool_depth, another provider call is made on a
\* message list that includes the new tool-role results; a turn returns only on
\* a response with no tool calls or on reaching the depth limit
C12_LoopsUntilPlainOrLimit ==
    [][\A t \in Tasks :
         /\ (RoundEnds(t) /\ depth[t] + 1 < max_tool_depth) => NextProviderCall(t)
         /\ TurnReturns(t) =>
               \/ pc[t] = "await_llm" /\ dispatched' = dispatched
               \/ RoundEnds(t) /\ depth[t] + 1 >= max_tool_depth
      ]_vars

\* C12 amended: whenever a response carried tool calls and no content and the
\* depth after executing them is below max_tool_depth, another provider call is
\* made on a message list that includes the new tool-role results; a turn
\* returns only on a response with no tool calls, after the tool calls of a
\* response that also carried content, or on reaching the depth limit
C12_LoopsUntilContentOrLimit ==
    [][\A t \in Tasks :
         /\ (RoundEnds(t) /\ response[t].content = ""
                /\ depth[t] + 1 < max_tool_depth) => NextProviderCall(t)
         /\ TurnReturns(t) =>
               \/ pc[t] = "await_llm" /\ dispatched' = dispatched
               \/ RoundEnds(t) /\ response[t].content # ""
               \/ RoundEnds(t) /\ depth[t] + 1 >= max_tool_depth
      ]_vars

\* a second provider call is in flight on a conversation that ends with the
\* tool-role result of the first round
C12_Witness ==
    \E t \in Tasks :
        /\ pc[t] = "await_llm"
        /\ depth[t] = 1
        /\ providerCalls[t] = 2
        /\ Last(messages).role = "tool"
        /\ Last(messages).tool_call_id[2] = 0

\* C13: a tool body that runs past tool.metadata.timeout is abandoned and the
\* dispatch fails with the ToolTimeout error type, a type distinct from the
\* one for a failing body (ToolExecutionError)
C13_TimeoutRaisesToolTimeout ==
    \A t \in Tasks : \A i \in 1..Len(trace[t]) :
        LET r == trace[t][i] IN
        (r.done /\ r.outcome = "timeout") =>
            /\ r.id \notin inflight
            /\ r.exc.type = "ToolTimeoutError"
            /\ r.exc.type # "ToolExecutionError"

\* C14: an exception the tool body raised itself (not the deadline) leaves
\* execute_tool as ToolExecutionError, with a message that carries the
\* message of the original exception
C14_BodyExceptionWrapped ==
    \A t \in Tasks : \A i \in 1..Len(trace[t]) :
        LET r == trace[t][i] IN
        (r.done /\ r.outcome \in {"raise", "raise_timeout"}) =>
            /\ r.exc.type = "ToolExecutionError"
            /\ Contains(r.exc.msg, BodyExc(r.outcome).msg)

\* C15: an exception raised by the provider's chat() is not turned into a
\* response text: chat() ends by raising it, returns nothing, and the
\* conversation is left as it was when the provider was called, without an
\* assistant message for the turn
C15_ProviderErrorPropagates ==
    /\ [](\A t \in Tasks :
            (pc[t] = "idle" /\ failed[t] = "LLMError") =>
                /\ returned[t] = NoReturn
                /\ Last(messages).role # "assistant")
    /\ [][\A t \in Tasks :
            (pc[t] = "await_llm" /\ failed'[t] = "LLMError") =>
                /\ pc'[t] = "idle"
                /\ returned'[t] = NoReturn
                /\ messages' = messages]_vars

\* the provider failed on the call that followed a tool round: the turn ended
\* with the tool-role result as the last message
C15_Witness ==
    \E t \in Tasks :
        /\ pc[t] = "idle"
        /\ failed[t] = "LLMError"
        /\ Len(messages) >= 3
        /\ Last(messages).role = "tool"

\* the dispatches of unregistered names that have failed
NotFoundRecords ==
    { r \in UNION { { trace[t][i] : i \in 1..Len(trace[t]) } : t \in Tasks } :
        r.done /\ get_tool(r.name) = None }

\* C16: the dispatch of a name that is not registered fails with ToolNotFound
\* without a call of the approval handler and without a tool body, and whether
\* suggestions were found or not its message holds the instruction not to
\* invent tool names, together with the suggestions or else the listing of
\* every registered tool under its category
C16_NotFoundMessage ==
    \A r \in NotFoundRecords :
        LET suggestions == _find_similar_tools(r.name, DefaultMaxSuggestions) IN
        /\ r.exc.type = "ToolNotFoundError"
        /\ ~r.asked /\ ~r.ran /\ r.id \notin inflight /\ r.id \notin effects
        /\ Contains(r.exc.msg, "Do not invent tool names.")
        /\ IF Len(suggestions) > 0
           THEN \A k \in 1..Len(suggestions) : Contains(r.exc.msg, suggestions[k])
           ELSE \A i \in 1..Len(_tools) :
                   /\ Contains(r.exc.msg, "\n" \o _tools[i].category \o ": ")
                   /\ Contains(r.exc.msg, _tools[i].name)

\* the registered names
RegisteredNames == { _tools[i].name : i \in 1..Len(_tools) }

\* what the claim says of every suggestion list: at most 3 names, registered,
\* each scoring above 0.4, in non-increasing order of score, none outside the
\* list scoring higher than one inside, and the list is what the message of
\* the error shows
SuggestionListOK(r, suggestions) ==
    LET n == Len(suggestions) IN
    /\ n <= 3
    /\ \A k \in 1..n :
          /\ suggestions[k] \in RegisteredNames
          /\ AboveThreshold(Score(r.name, suggestions[k]))
    /\ \A k \in 1..(n - 1) :
          ~Higher(Score(r.name, suggestions[k + 1]), Score(r.name, suggestions[k]))
    /\ \A name \in RegisteredNames :
          (\A k \in 1..n : suggestions[k] # name) =>
             \A k \in 1..n :
                ~Higher(Score(r.name, name), Score(r.name, suggestions[k]))
    /\ n > 0 => Contains(r.exc.msg, SuggestionLines(suggestions))

\* the registered tools that the sort puts before git_status for this name:
\* a higher score, or the same score and registered earlier
AheadOfGitStatus(name) ==
    LET g == CHOOSE i \in 1..Len(_tools) : _tools[i].name = "git_status" IN
    { j \in 1..Len(_tools) :
        \/ Higher(Score(name, _tools[j].name), Score(name, "git_status"))
        \/ Same(Score(name, _tools[j].name), Score(name, "git_status")) /\ j < g }

\* C17 as stated: for every unregistered name and registry the suggestion list
\* is as described, and for "got_status" it contains "git_status" whenever
\* git_status is registered
C17_SuggestionsRanked ==
    \A r \in NotFoundRecords :
        LET suggestions == _find_similar_tools(r.name, DefaultMaxSuggestions) IN
        /\ SuggestionListOK(r, suggestions)
        /\ (r.name = "got_status" /\ "git_status" \in RegisteredNames) =>
              \E k \in 1..Len(suggestions) : suggestions[k] = "git_status"

\* C17 amended: the same, and for "got_status" the list contains "git_status"
\* whenever git_status is registered and fewer than 3 registered names come
\* before it in the order of the sort
C17_SuggestionsRankedTop3 ==
    \A r \in NotFoundRecords :
        LET suggestions == _find_similar_tools(r.name, DefaultMaxSuggestions) IN
        /\ SuggestionListOK(r, suggestions)
        /\ (r.name = "got_status" /\ "git_status" \in RegisteredNames
               /\ Cardinality(AheadOfGitStatus(r.name)) < 3) =>
              \E k \in 1..Len(suggestions) : suggestions[k] = "git_status"

\* "got_status" was dispatched on a registry of four tools: three are
\* suggested, git_status among them, and one registered name that scores above
\* 0.4 is left out
C17_Witness ==
    \E r \in NotFoundRecords :
        LET suggestions == _find_similar_tools(r.name, DefaultMaxSuggestions) IN
        /\ r.name = "got_status"
        /\ Len(_tools) = 4
        /\ Len(suggestions) = 3
        /\ \E k \in 1..3 : suggestions[k] = "git_status"
        /\ \E name \in RegisteredNames :
              /\ \A k \in 1..3 : suggestions[k] # name
              /\ AboveThreshold(Score(r.name, name))

\* C18: needs_approval is false whenever global approval is off or auto-approve
\* is on; otherwise it is true exactly when the operation is one of the
\* dangerous operations or the lowercased 'path' argument contains one of the
\* dangerous path fragments.  With the default flags: write_file on
\* /etc/passwd needs approval, read_file on /tmp/x.txt does not, git_commit
\* does whatever the arguments
C18_NeedsApproval ==
    gated.state # "none" /\ gated.call = "execute_with_approval" =>
        LET kw       == gated.kwargs
            op       == gated.operation
            defaults == require_approval /\ ~_auto_approve_all
        IN
        /\ (~require_approval \/ _auto_approve_all) => ~gated.needs
        /\ defaults =>
             (gated.needs <=>
                \/ op \in DANGEROUS_OPERATIONS
                \/ /\ "path" \in DOMAIN kw
                   /\ \E fragment \in DANGEROUS_PATHS :
                         Contains(lower(kw.path), fragment))
        /\ (defaults /\ op = "write_file" /\ kw = [path |-> "/etc/passwd"])
              => gated.needs
        /\ (defaults /\ op = "read_file" /\ kw = [path |-> "/tmp/x.txt"])
              => ~gated.needs
        /\ (defaults /\ op = "read_file" /\ kw = [path |-> "/ETC/Shadow"])
              => gated.needs
        /\ (defaults /\ op = "git_commit") => gated.needs

\* an operation that is not dangerous was gated for its path, which matches a
\* fragment only once lowercased
C18_Witness ==
    /\ gated.state # "none" /\ gated.call = "execute_with_approval"
    /\ require_approval /\ ~_auto_approve_all
    /\ gated.operation = "read_file"
    /\ gated.kwargs = [path |-> "/ETC/Shadow"]
    /\ gated.needs

\* C19: request_approval returns true without consulting the handler or the
\* prompt whenever global approval is off or auto-approve is on; otherwise with
\* a handler configured it returns the handler's answer and the prompt is not
\* used; only with no handler it shows the prompt, whose default answer is no
C19_RequestApproval ==
    (gated.state # "none" /\ gated.requested) =>
        LET r == gated.request IN
        IF ~require_approval \/ _auto_approve_all
        THEN r.approved /\ ~r.handler_called /\ ~r.prompt_called
        ELSE IF gate_approval_handler # "none"
        THEN /\ r.approved = gated.handlerAnswer
             /\ r.handler_called /\ ~r.prompt_called
        ELSE /\ r.prompt_called /\ ~r.handler_called
             /\ r.approved = (gated.promptInput = "y")
             /\ gated.promptInput = "" => ~r.approved

\* a configured handler approved a request that the user at the prompt would
\* have declined
C19_Witness ==
    /\ gated.state # "none" /\ gated.call = "request_approval"
    /\ require_approval /\ ~_auto_approve_all
    /\ gate_approval_handler # "none"
    /\ gated.handlerAnswer /\ gated.promptInput = "n"
    /\ gated.request.approved

\* C20: execute_with_approval raises ApprovalDenied without invoking the
\* executor when approval is needed and the request is declined; in every other
\* case it invokes the executor exactly once, with the given kwargs, and the
\* executor's result is what the call returns
C20_ExecuteWithApproval ==
    gated.state # "none" /\ gated.call = "execute_with_approval" =>
        IF gated.needs /\ ~gated.request.approved
        THEN /\ gated.state = "raised"
             /\ gated.raised = "ApprovalDeniedError"
             /\ gated.executor_calls = 0
             /\ gated.result = NoResult
        ELSE /\ gated.executor_calls = 1
             /\ gated.executor_kwargs = gated.kwargs
             /\ gated.raised # "ApprovalDeniedError"
             /\ gated.state = "returned" =>
                   gated.result = ExecutorResult(gated.kwargs)
             /\ gated.needs => gated.requested

\* a needed approval was declined at the prompt by pressing Enter
C20_Witness ==
    /\ gated.state = "raised" /\ gated.call = "execute_with_approval"
    /\ gated.needs
    /\ gated.request.prompt_called /\ gated.promptInput = ""
    /\ gated.executor_calls = 0


\* a step of reset_conversation(): the conversation changes between two chat()
\* calls and no turn was started
ResetStep ==
    /\ \A t \in Tasks : pc[t] = "idle" /\ pc'[t] = "idle"
    /\ turnNo' = turnNo
    /\ messages' # messages

\* C29: reset_conversation() from any reachable state leaves the conversation
\* equal to the one-element sequence holding the system message that was at
\* index 0 before the call, and a second reset changes nothing
C29_ResetKeepsSystemOnly ==
    [][ResetStep =>
          /\ messages' = << messages[1] >>
          /\ messages'[1] = SystemMessage
          /\ reset_conversation(messages') = messages']_vars

\* a conversation was reset after a turn had run on it
C29_Witness ==
    /\ turnNo > 0
    /\ \A t \in Tasks : pc[t] = "idle"
    /\ messages = << SystemMessage >>


\* C26: usage recording is best-effort: when the registry dispatch of a tool
\* call succeeded with result r, a failure raised afterwards by the history,
\* achievement or memory collaborator inside Agent._execute_tool neither
\* changes the content of the call's tool-role message (it is still r) nor
\* aborts the turn
C26_RecordingBestEffort ==
    \A t \in Tasks :
        /\ failed[t] \in {"none", "LLMError"}
        /\ \A i \in 1..Len(trace[t]) :
             LET r == trace[t][i] IN
             (r.done /\ r.exc.type = "none" /\ r.record_failed) =>
                /\ r.text = r.result
                /\ MessageOf(t, i) = Message("tool", r.result, r.id)


\* the content of the provider response that ends task t's turn in this step:
\* the response whose tool calls were just executed, or the plain response
\* chat() returns at once
EndingContent(t) ==
    IF pc[t] = "tools" THEN response[t].content ELSE returned'[t].text

ToolCallHandled(t) == pc[t] \in {"tools", "exec"} /\ idx'[t] = idx[t] + 1

\* the tool-role message of the call at position idx of task t's response
ToolMessageAppended(t) ==
    /\ Len(messages') = Len(messages) + 1
    /\ SubSeq(messages', 1, Len(messages)) = messages
    /\ Last(messages').role = "tool"
    /\ Last(messages').tool_call_id = response[t].tool_calls[idx[t]].id

\* the conversation of the first turn just before chat() appends the answer:
\* the system message, the user message, one tool-role message per tool call
FirstTurnSoFar ==
    /\ Len(messages) = 2 + dispatched
    /\ messages[1] = SystemMessage
    /\ messages[2] = UserMessage(1)
    /\ \A j \in 3..Len(messages) : messages[j].role = "tool"
    /\ \A i, j \in 3..Len(messages) :
          i # j => messages[i].tool_call_id # messages[j].tool_call_id

\* C24: with chat() calls serialized, a turn that returns normally appends to
\* the conversation, in this order and nothing else: one user message, one
\* tool-role message per tool call dispatched in the turn, and one assistant
\* message, which is the last message of the conversation (trimming comes
\* after the append) and whose content is the text chat() returns
C24_TurnAppendsInOrder ==
    [][\A t \in Tasks :
         /\ (pc[t] = "idle" /\ pc'[t] = "await_llm") =>
               messages' = Append(messages, UserMessage(turnNo'))
         /\ (pc[t] = "idle" /\ turnNo' # turnNo /\ pc'[t] = "idle" /\ t = 1) =>
               /\ returned'[t].text = ""
               /\ messages' = _trim_conversation(
                                 messages \o << UserMessage(turnNo'),
                                                Message("assistant", returned'[t], NoId) >>,
                                 max_conversation_length)
         /\ ToolCallHandled(t) => ToolMessageAppended(t)
         /\ (Busy(t) /\ pc'[t] # "idle" /\ ~ToolCallHandled(t)) => messages' = messages
         /\ TurnReturns(t) =>
               /\ turnNo = 1 => FirstTurnSoFar
               /\ messages' = _trim_conversation(
                                 Append(messages, Message("assistant", returned'[t], NoId)),
                                 max_conversation_length)
               /\ Last(messages') = Message("assistant", returned'[t], NoId)
      ]_vars

\* a turn with two tool calls has returned: the assistant message with the
\* returned text is last, right after a tool-role message
C24_Witness ==
    /\ \A t \in Tasks : pc[t] = "idle"
    /\ turnNo = 1 /\ dispatched = 2
    /\ failed[1] = "none"
    /\ Len(messages) >= 3
    /\ Last(messages) = Message("assistant", returned[1], NoId)
    /\ messages[Len(messages) - 1].role = "tool"

\* the tool-role message at index j of conversation c has the user message of
\* the turn that produced it at an earlier index
PrecededByItsUser(c, j) ==
    \E u \in 1..(j - 1) : c[u] = UserMessage(c[j].tool_call_id[1])

\* C28 as stated: after end-of-turn trimming every tool-role message that
\* remains in the conversation is still preceded, at an earlier index, by the
\* user message of the turn that produced it
C28_ToolKeepsItsUser ==
    (\A t \in Tasks : pc[t] = "idle" /\ failed[t] = "none") =>
        \A j \in 1..Len(messages) :
            messages[j].role = "tool" => PrecededByItsUser(messages, j)

\* the positions of a conversation of L messages that trimming to N keeps
KeptPositions(L, N) ==
    IF L <= N \/ N = 1 THEN 1..L ELSE (L - N + 2)..L

\* C28 amended: after end-of-turn trimming a tool-role message of the turn
\* that remains in the conversation is preceded by the user message of the
\* turn exactly when that user message is itself among the messages trimming
\* kept (nothing was cut, or it is one of the most recent ones); otherwise the
\* tool result stays and its user message is gone
C28_ToolKeepsItsUserIfKept ==
    [][\A t \in Tasks :
         TurnReturns(t) =>
            LET c == Append(messages, Message("assistant", returned'[t], NoId))
                u == CHOOSE i \in 1..Len(c) : c[i] = UserMessage(turnNo)
            IN
            \A j \in 1..Len(messages') :
               (messages'[j].role = "tool" /\ messages'[j].tool_call_id[1] = turnNo) =>
                  (PrecededByItsUser(messages', j)
                      <=> u \in KeptPositions(Len(c), max_conversation_length))
      ]_vars

\* a turn has returned and trimming kept one of its tool results without the
\* user message that started the turn
C28_Witness ==
    /\ \A t \in Tasks : pc[t] = "idle" /\ failed[t] = "none"
    /\ \E j \in 1..Len(messages) :
          /\ messages[j].role = "tool"
          /\ ~PrecededByItsUser(messages, j)

\* a step of ToolRegistry.execute_tool for a tool call of task t: the lookup
\* and approval check, or the end of the awaited body
ExecuteToolStep(t) ==
    \/ pc[t] = "tools" /\ Len(trace'[t]) = Len(trace[t]) + 1
    \/ pc[t] = "exec" /\ pc'[t] # "exec"

\* C30: execute_tool, whatever its outcome (success, ToolNotFound,
\* ToolApprovalDenied, timeout, execution failure), leaves the registry's own
\* state unchanged: the registered names, the tool bound to each name and the
\* configured approval handler are the same after the call as before it
C30_ExecuteToolLeavesRegistry ==
    [][\A t \in Tasks :
         ExecuteToolStep(t) =>
            /\ _tools' = _tools
            /\ _approval_handler' = _approval_handler]_vars

\* one response's calls ended as ToolNotFound and as ToolApprovalDenied, and
\* the registry is the one main() set up
C30_Witness ==
    \E t \in Tasks :
        /\ Len(trace[t]) = 2
        /\ trace[t][1].exc.type = "ToolNotFoundError"
        /\ trace[t][2].exc.type = "ToolApprovalDenied"
        /\ _tools = RegisteredAtStartup
        /\ _approval_handler = "main"


\* C23: as main() wires the application (registry handler delegating to the
\* ApprovalSystem, approval required, auto-approve off), every tool call the
\* agent dispatches for which needs_approval(name, **arguments) is true (a
\* dangerous operation name, or a 'path' argument matching a dangerous path
\* fragment) runs its tool body only after an approval request for that call
\* returned true
C23_GatedCallsRunOnlyApproved ==
    \A t \in Tasks : \A i \in 1..Len(trace[t]) :
        LET r    == trace[t][i]
            call == response[t].tool_calls[i]
        IN
        (r.ran /\ needs_approval(call.name, call.arguments))
            => (r.asked /\ r.answer)

\* the message belongs to turn n: its user message or one of its tool results
OfTurn(m, n) ==
    \/ m = UserMessage(n)
    \/ m.role = "tool" /\ m.tool_call_id[1] = n

\* task t is the only one that has ever run a chat() call
OnlyCaller(t) == \A u \in Tasks : u # t => turn[u] = 0

\* C27: chat() has no serialization of its own. Whenever one call is suspended
\* at a provider or tool await, another call can start; a starting call appends
\* its user message to the one shared conversation at once and leaves the
\* other call where it is. The messages of a turn follow one another without
\* a gap as long as a single caller issued every call so far: each tool
\* result and each final answer then lands right behind a message of its own
\* turn
C27_NoInternalSerialization ==
    /\ [](\A t, u \in Tasks :
            (t # u /\ pc[t] = "idle" /\ pc[u] # "idle") => ENABLED ChatStart(t))
    /\ [][\A t \in Tasks :
            /\ (pc[t] = "idle" /\ pc'[t] = "await_llm") =>
                  /\ messages' = Append(messages, UserMessage(turn'[t]))
                  /\ \A u \in Tasks : u # t => pc'[u] = pc[u]
            /\ ((ToolCallHandled(t) \/ TurnReturns(t)) /\ OnlyCaller(t)) =>
                  /\ OfTurn(Last(messages), turn[t])
                  /\ messages' = Append(messages, Last(messages'))
         ]_vars

\* the turns interleave: the second call started while the first was suspended
\* in a tool round, and the first call's answer, the only assistant message so
\* far, came after the second call's user message
C27_Witness ==
    /\ turn[1] = 1 /\ turn[2] = 2
    /\ pc[1] = "idle" /\ failed[1] = "none" /\ returned[1] # NoReturn
    /\ pc[2] # "idle"
    /\ \E i, j, k \in 1..Len(messages) :
          /\ i < j /\ j < k
          /\ messages[i] = UserMessage(1)
          /\ messages[j] = UserMessage(2)
          /\ \E m \in 1..Len(messages) : i < m /\ m < j /\ OfTurn(messages[m], 1)
          /\ messages[k] = Message("assistant", returned[1], NoId)
          /\ \A m \in 1..Len(messages) : messages[m].role = "assistant" => m = k

\* the entry get_tools_for_llm gives for a tool
ListingEntry(tool) ==
    [name |-> tool.name, description |-> tool.description,
     parameters |-> to_json_schema(tool.parameters)]

\* the listing has one entry per registered name, in the order the names were
\* inserted, each showing the tool registered last under its name
ListsRegistered(listing) ==
    /\ Len(listing) = Cardinality(DOMAIN stamp)
    /\ \A n \in DOMAIN stamp : \E i \in 1..Len(listing) : listing[i].name = n
    /\ \A i \in 1..Len(listing) :
          /\ listing[i].name \in DOMAIN stamp
          /\ listing[i] = ListingEntry(stamp[listing[i].name].tool)
    /\ \A i, j \in 1..Len(listing) :
          i < j => /\ listing[i].name # listing[j].name
                   /\ stamp[listing[i].name].at < stamp[listing[j].name].at

\* C21: after any sequence of register and unregister calls get_tools_for_llm()
\* returns exactly one entry per registered name, in insertion order, each for
\* the tool registered last under the name; a call changes nothing in the
\* registry, and a call that follows another with no registration change in
\* between returns the same list
C21_ListingInInsertionOrder ==
    /\ [](/\ ListsRegistered(get_tools_for_llm(_tools))
          /\ listed.called => ListsRegistered(listed.tools))
    /\ [][(listed'.called /\ clock' = clock) =>
             /\ _tools' = _tools
             /\ listed.called => listed' = listed
         ]_vars

\* a listing of two tools taken after every allowed call: the name inserted
\* second was written twice and stands first, since the name before it was
\* unregistered and came back later
C21_Witness ==
    /\ listed.called
    /\ clock = MaxRegOps
    /\ Len(listed.tools) = 2
    /\ stamp[listed.tools[1].name].writes = 2
    /\ stamp[listed.tools[1].name].at = 2
    /\ stamp[listed.tools[2].name].at > 3
    /\ listed.tools[1].description = "second"

\* the schema shows the declarations: one property per parameter, the required
\* names in declaration order, enum and default exactly where they are declared
ShowsDeclarations(schema, parameters) ==
    /\ Len(schema.properties) = Len(parameters)
    /\ schema.required = RequiredNames(parameters)
    /\ \A k \in 1..Len(parameters) :
          /\ k <= Len(schema.properties)
          /\ schema.properties[k].key = parameters[k].name
          /\ ("enum" \in DOMAIN schema.properties[k].value) <=> (parameters[k].enum # PyNone)
          /\ ("default" \in DOMAIN schema.properties[k].value)
                <=> (parameters[k].default # PyNone)

\* C22: a tool that was registered and then listed by get_tools_for_llm() shows
\* every parameter declaration, an empty enum list and the defaults False and 0
\* included: one property per declared parameter, 'required' equal to the names
\* declared required=True in declaration order, and 'enum' (or 'default') on a
\* property if and only if the parameter declares an enum (or a default)
C22_SchemaShowsDeclarations ==
    listed.called =>
        \A i \in 1..Len(listed.tools) :
            ShowsDeclarations(listed.tools[i].parameters,
                              stamp[listed.tools[i].name].tool.parameters)

\* the same without the empty enum list: what the code does do
C22_ExceptEmptyEnum ==
    listed.called =>
        \A i \in 1..Len(listed.tools) :
            LET parameters == stamp[listed.tools[i].name].tool.parameters IN
            (\A k \in 1..Len(parameters) : parameters[k].enum # PyList(<< >>)) =>
                ShowsDeclarations(listed.tools[i].parameters, parameters)

====
